---------------------------- MODULE Spec2Model ----------------------------
(***************************************************************************)
(* A model of the two engines of gh-productivity:                          *)
(*   - the commit classifier, ai_detector.detect_ai, and                   *)
(*   - the temporal pattern miner of temporal.py (analyze_time_patterns,   *)
(*     detect_sessions, calculate_streak_detailed).                        *)
(*                                                                         *)
(* Text is modelled by TLA+ strings, character by character; a regular     *)
(* expression of the pattern registry is a sequence of elements that the   *)
(* matcher below interprets with backtracking, as re.search does.  The     *)
(* character "#" stands for U+1F916 (the robot emoji of the registry),     *)
(* which cannot be written in a module.                                    *)
(*                                                                         *)
(* A commit timestamp is a number of minutes since Monday 2024-01-01       *)
(* 00:00, so that the hour, the weekday and the calendar date are computed *)
(* from it as pandas computes them from a datetime.                        *)
(***************************************************************************)
EXTENDS Integers, Sequences, FiniteSets, TLC

VARIABLES
    commit,         \* the commit dict handed to detect_ai: message, author, date
    ai_info,        \* the AIInfo returned by detect_ai
    history,        \* the calls of detect_ai so far: arguments and result of each
    commits,        \* the 'date' column of the commits DataFrame, in row order
    gap_threshold,  \* the gap_threshold_minutes handed to detect_sessions
    sessions,       \* the list returned by detect_sessions
    streak_info,    \* the dict returned by calculate_streak_detailed
    metrics,        \* the TemporalMetrics returned by analyze_time_patterns
    args,           \* the arguments of a direct call of one of the two label functions
    label,          \* the string that call returned
    commit_list,    \* the list of commit dicts handed to categorize_commits
    categories,     \* the dict returned by categorize_commits
    productivity_metrics,  \* the ProductivityMetrics returned by calculate_metrics
    called          \* the functions that have returned

vars ==
    <<commit, ai_info, history, commits, gap_threshold, sessions, streak_info, metrics,
      args, label, commit_list, categories, productivity_metrics, called>>

ai_vars == <<commit, ai_info, history>>

temporal_vars == <<commits, gap_threshold, sessions, streak_info, metrics>>

label_vars == <<args, label>>

category_vars == <<commit_list, categories>>

analyze_vars == <<productivity_metrics>>

(***************************************************************************)
(*                                  Text                                   *)
(***************************************************************************)

\* str.lower() / re.IGNORECASE on one character
LowerChar(c) ==
    CASE c = "A" -> "a" [] c = "B" -> "b" [] c = "C" -> "c" [] c = "D" -> "d"
      [] c = "E" -> "e" [] c = "F" -> "f" [] c = "G" -> "g" [] c = "H" -> "h"
      [] c = "I" -> "i" [] c = "J" -> "j" [] c = "K" -> "k" [] c = "L" -> "l"
      [] c = "M" -> "m" [] c = "N" -> "n" [] c = "O" -> "o" [] c = "P" -> "p"
      [] c = "Q" -> "q" [] c = "R" -> "r" [] c = "S" -> "s" [] c = "T" -> "t"
      [] c = "U" -> "u" [] c = "V" -> "v" [] c = "W" -> "w" [] c = "X" -> "x"
      [] c = "Y" -> "y" [] c = "Z" -> "z" [] OTHER -> c

CharAt(s, i) == SubSeq(s, i, i)

RECURSIVE LowerFrom(_, _)
LowerFrom(s, i) ==
    IF i > Len(s) THEN "" ELSE LowerChar(CharAt(s, i)) \o LowerFrom(s, i + 1)

\* str.lower()
Lower(s) == LowerFrom(s, 1)

\* `sub in s` for Python strings
Contains(s, sub) ==
    \E i \in 1..(Len(s) - Len(sub) + 1) : SubSeq(s, i, i + Len(sub) - 1) = sub

(***************************************************************************)
(* Regular expressions.  An element is a literal (compared ignoring case), *)
(* an alternation of literals, \s* or [^>]*.                               *)
(***************************************************************************)
Lit(s) == [t |-> "lit", s |-> s]
Alt(ss) == [t |-> "alt", s |-> ss]
WS == [t |-> "ws", s |-> ""]
NotGt == [t |-> "notgt", s |-> ""]

IsSpace(c) == c \in {" ", "\t", "\n", "\r", "\f"}

\* the literal lit stands at position i of text, ignoring case
HasAt(text, i, lit) ==
    /\ i + Len(lit) - 1 <= Len(text)
    /\ Lower(SubSeq(text, i, i + Len(lit) - 1)) = Lower(lit)

\* the number of characters from position i on that a starred class can take
RECURSIVE RunLen(_, _, _)
RunLen(text, i, cls) ==
    IF i > Len(text) THEN 0
    ELSE LET c == CharAt(text, i)
             in == IF cls = "ws" THEN IsSpace(c) ELSE c # ">"
         IN  IF in THEN 1 + RunLen(text, i + 1, cls) ELSE 0

\* the elements k.. of pat match text from position i on
RECURSIVE MatchAt(_, _, _, _)
MatchAt(text, i, pat, k) ==
    IF k > Len(pat) THEN TRUE
    ELSE LET e == pat[k] IN
         CASE e.t = "lit" ->
                 HasAt(text, i, e.s) /\ MatchAt(text, i + Len(e.s), pat, k + 1)
           [] e.t = "alt" ->
                 \E j \in 1..Len(e.s) :
                     HasAt(text, i, e.s[j]) /\ MatchAt(text, i + Len(e.s[j]), pat, k + 1)
           [] OTHER ->
                 \E n \in 0..RunLen(text, i, e.t) : MatchAt(text, i + n, pat, k + 1)

\* re.search(pattern, text, re.IGNORECASE) is not None
re_search(pat, text) == \E i \in 1..(Len(text) + 1) : MatchAt(text, i, pat, 1)

(***************************************************************************)
(*                      ai_detector: the registry                          *)
(***************************************************************************)
CoAuthoredBy(who) == <<Lit("Co-Authored-By:"), WS, Lit(who)>>

AI_PATTERNS == <<
    [agent |-> "claude",
     emails |-> << <<Lit("claude@anthropic.com")>>,
                   <<Lit("noreply@anthropic.com")>>,
                   <<Lit("ai@anthropic.com")>> >>,
     co_authored |-> << CoAuthoredBy("Claude") \o <<WS, Lit("<"), NotGt, Lit("anthropic.com>")>>,
                        CoAuthoredBy("Claude") \o <<WS, Lit("<"), NotGt, Lit(">")>> >>,
     keywords |-> << <<Lit("Generated with "), Alt(<<"Claude Code", "Claude">>)>>,
                     <<Lit("# Generated with")>>,
                     CoAuthoredBy("Claude") >>],
    [agent |-> "copilot",
     emails |-> << <<Lit("copilot@github.com")>>, <<Lit("ai@github.com")>> >>,
     co_authored |-> << CoAuthoredBy("GitHub Copilot"), CoAuthoredBy("Copilot") >>,
     keywords |-> << <<Lit("Generated with Copilot")>>, <<Lit("Azure OpenAI")>> >>],
    [agent |-> "codex",
     emails |-> << <<Lit("codex@openai.com")>>, <<Lit("codex@github.com")>> >>,
     co_authored |-> << CoAuthoredBy("Codex") >>,
     keywords |-> << <<Lit("Generated with Codex")>> >>],
    [agent |-> "cursor",
     emails |-> << >>,
     co_authored |-> << CoAuthoredBy("Cursor") >>,
     keywords |-> << <<Lit("Generated with Cursor")>> >>],
    [agent |-> "aider",
     emails |-> << >>,
     co_authored |-> << CoAuthoredBy("Aider") >>,
     keywords |-> << <<Lit("Generated with Aider")>> >>],
    [agent |-> "cline",
     emails |-> << >>,
     co_authored |-> << CoAuthoredBy("Cline") >>,
     keywords |-> << <<Lit("Generated with Cline")>> >>],
    [agent |-> "jetbrains",
     emails |-> << <<Lit("ai@jetbrains.com")>> >>,
     co_authored |-> << >>,
     keywords |-> << <<Lit("AI-generated")>> >>] >>

fuzzy_ai_keywords == <<"ai-assisted", "ai generated", "llm", "gpt">>

\* AIInfo(is_ai_assisted, ai_agent = None, confidence = "low")
NoAgent == "None"

AIInfo(is_ai, agent, confidence) ==
    [is_ai_assisted |-> is_ai, ai_agent |-> agent, confidence |-> confidence]

\* any(re.search(p, text, re.IGNORECASE) for p in patterns)
AnyMatch(patterns, text) == \E j \in 1..Len(patterns) : re_search(patterns[j], text)

\* a variant of ScanRegistry that tries the agents from the last registered
\* to the first
RECURSIVE ScanRegistry_last_agent_first(_, _, _, _)
ScanRegistry_last_agent_first(i, commit_message, author_email, otherwise) ==
    IF i > Len(AI_PATTERNS) THEN otherwise
    ELSE LET patterns == AI_PATTERNS[Len(AI_PATTERNS) + 1 - i] IN
         IF AnyMatch(patterns.emails, author_email)
           THEN AIInfo(TRUE, patterns.agent, "high")
         ELSE IF AnyMatch(patterns.co_authored, commit_message)
           THEN AIInfo(TRUE, patterns.agent, "high")
         ELSE IF AnyMatch(patterns.keywords, commit_message)
           THEN AIInfo(TRUE, patterns.agent, "medium")
         ELSE ScanRegistry_last_agent_first(i + 1, commit_message, author_email, otherwise)

\* a variant of ScanRegistry that tries an agent's keyword rules before its
\* co-authorship rules
RECURSIVE ScanRegistry_keywords_first(_, _, _, _)
ScanRegistry_keywords_first(i, commit_message, author_email, otherwise) ==
    IF i > Len(AI_PATTERNS) THEN otherwise
    ELSE LET patterns == AI_PATTERNS[i] IN
         IF AnyMatch(patterns.emails, author_email)
           THEN AIInfo(TRUE, patterns.agent, "high")
         ELSE IF AnyMatch(patterns.keywords, commit_message)
           THEN AIInfo(TRUE, patterns.agent, "medium")
         ELSE IF AnyMatch(patterns.co_authored, commit_message)
           THEN AIInfo(TRUE, patterns.agent, "high")
         ELSE ScanRegistry_keywords_first(i + 1, commit_message, author_email, otherwise)

\* detect_ai, lines 117-131: the agents from the i-th on, in registry order
RECURSIVE ScanRegistry(_, _, _, _)
ScanRegistry(i, commit_message, author_email, otherwise) ==
    IF i > Len(AI_PATTERNS) THEN otherwise
    ELSE LET patterns == AI_PATTERNS[i] IN
         IF AnyMatch(patterns.emails, author_email)
           THEN AIInfo(TRUE, patterns.agent, "high")
         ELSE IF AnyMatch(patterns.co_authored, commit_message)
           THEN AIInfo(TRUE, patterns.agent, "high")
         ELSE IF AnyMatch(patterns.keywords, commit_message)
           THEN AIInfo(TRUE, patterns.agent, "medium")
         ELSE ScanRegistry(i + 1, commit_message, author_email, otherwise)

\* a variant of FuzzyScan that leaves the agent of a fuzzy hit unset
FuzzyScan_unlabelled(commit_message, author_name, author_email) ==
    LET full_text == Lower(commit_message \o " " \o author_name \o " " \o author_email)
    IN  IF \E k \in 1..Len(fuzzy_ai_keywords) : Contains(full_text, fuzzy_ai_keywords[k])
          THEN AIInfo(TRUE, NoAgent, "low")
          ELSE AIInfo(FALSE, NoAgent, "low")

\* a variant of FuzzyScan that looks for the fuzzy keywords in the message only
FuzzyScan_message_only(commit_message, author_name, author_email) ==
    LET full_text == Lower(commit_message)
    IN  IF \E k \in 1..Len(fuzzy_ai_keywords) : Contains(full_text, fuzzy_ai_keywords[k])
          THEN AIInfo(TRUE, "unknown", "low")
          ELSE AIInfo(FALSE, NoAgent, "low")

\* a variant of FuzzyScan that looks for the fuzzy keywords in each of the
\* three fields on its own
FuzzyScan_field_by_field(commit_message, author_name, author_email) ==
    IF \E k \in 1..Len(fuzzy_ai_keywords) :
           \/ Contains(Lower(commit_message), fuzzy_ai_keywords[k])
           \/ Contains(Lower(author_name), fuzzy_ai_keywords[k])
           \/ Contains(Lower(author_email), fuzzy_ai_keywords[k])
      THEN AIInfo(TRUE, "unknown", "low")
      ELSE AIInfo(FALSE, NoAgent, "low")

\* detect_ai, lines 115 and 133-139: the fuzzy scan of the lowered concatenation
FuzzyScan(commit_message, author_name, author_email) ==
    LET full_text == Lower(commit_message \o " " \o author_name \o " " \o author_email)
    IN  IF \E k \in 1..Len(fuzzy_ai_keywords) : Contains(full_text, fuzzy_ai_keywords[k])
          THEN AIInfo(TRUE, "unknown", "low")
          ELSE AIInfo(FALSE, NoAgent, "low")

\* a variant of detect_ai that tries the rules tier by tier (every agent's
\* emails, then every agent's trailers, then every agent's keywords)
detect_ai_tier_major(commit_message, author_name, author_email, commit_date) ==
    LET First(kind, text) ==
            CHOOSE i \in DOMAIN AI_PATTERNS :
                /\ AnyMatch(AI_PATTERNS[i][kind], text)
                /\ \A j \in 1..(i - 1) : ~AnyMatch(AI_PATTERNS[j][kind], text)
        Some(kind, text) == \E i \in DOMAIN AI_PATTERNS : AnyMatch(AI_PATTERNS[i][kind], text)
    IN  IF Some("emails", author_email)
          THEN AIInfo(TRUE, AI_PATTERNS[First("emails", author_email)].agent, "high")
        ELSE IF Some("co_authored", commit_message)
          THEN AIInfo(TRUE, AI_PATTERNS[First("co_authored", commit_message)].agent, "high")
        ELSE IF Some("keywords", commit_message)
          THEN AIInfo(TRUE, AI_PATTERNS[First("keywords", commit_message)].agent, "medium")
        ELSE FuzzyScan(commit_message, author_name, author_email)

\* a variant of detect_ai that takes every commit made before a cut-off date
\* (Tuesday 2024-01-02 00:00) for unassisted
detect_ai_after_cutoff_only(commit_message, author_name, author_email, commit_date) ==
    IF commit_date < 1440
      THEN AIInfo(FALSE, NoAgent, "low")
      ELSE ScanRegistry(1, commit_message, author_email,
                        FuzzyScan(commit_message, author_name, author_email))

\* a variant of detect_ai that tests the email rules against the author name
detect_ai_email_rules_on_name(commit_message, author_name, author_email, commit_date) ==
    ScanRegistry(1, commit_message, author_name,
                 FuzzyScan(commit_message, author_name, author_email))

detect_ai(commit_message, author_name, author_email, commit_date) ==
    ScanRegistry(1, commit_message, author_email,
                 FuzzyScan(commit_message, author_name, author_email))

\* categories.get(agent, 0)
Get(tally, agent) == IF agent \in DOMAIN tally THEN tally[agent] ELSE 0

\* categories[agent] = value
Put(tally, agent, value) ==
    [k \in DOMAIN tally \cup {agent} |-> IF k = agent THEN value ELSE tally[k]]

\* a variant of CategorizeLoop that marks an agent as seen instead of counting
RECURSIVE CategorizeLoop_marks(_, _, _)
CategorizeLoop_marks(commit_dicts, i, tally) ==
    IF i > Len(commit_dicts) THEN tally
    ELSE LET c == commit_dicts[i]
             info == detect_ai(c.message, c.author_name, c.author_email, c.date)
         IN  IF info.is_ai_assisted
               THEN LET agent == IF info.ai_agent # NoAgent THEN info.ai_agent ELSE "unknown"
                    IN  CategorizeLoop_marks(commit_dicts, i + 1, Put(tally, agent, 1))
               ELSE CategorizeLoop_marks(commit_dicts, i + 1,
                                         Put(tally, "solo", tally["solo"] + 1))

\* categorize_commits, lines 154-168: the loop from the i-th commit on
RECURSIVE CategorizeLoop(_, _, _)
CategorizeLoop(commit_dicts, i, tally) ==
    IF i > Len(commit_dicts) THEN tally
    ELSE LET c == commit_dicts[i]
             info == detect_ai(c.message, c.author_name, c.author_email, c.date)
         IN  IF info.is_ai_assisted
               THEN LET agent == IF info.ai_agent # NoAgent THEN info.ai_agent ELSE "unknown"
                    IN  CategorizeLoop(commit_dicts, i + 1,
                                       Put(tally, agent, Get(tally, agent) + 1))
               ELSE CategorizeLoop(commit_dicts, i + 1,
                                   Put(tally, "solo", tally["solo"] + 1))

\* lines 142-170; categories starts as {"solo": 0}
categorize_commits(commit_dicts) ==
    CategorizeLoop(commit_dicts, 1, [k \in {"solo"} |-> 0])

(***************************************************************************)
(*                       temporal: dates and numbers                       *)
(***************************************************************************)

\* Series.dt.hour
hour_of(ts) == (ts % 1440) \div 60

\* Series.dt.date, as a number of days since 2024-01-01
date_only(ts) == ts \div 1440

\* Series.dt.dayofweek: 0 = Monday .. 6 = Sunday (2024-01-01 is a Monday)
day_of_week(ts) == date_only(ts) % 7

Digit(n) == SubSeq("0123456789", n + 1, n + 1)

\* str(datetime.date): ISO format, for the days of January 2024
DateStr(d) == "2024-01-" \o Digit((d + 1) \div 10) \o Digit((d + 1) % 10)

\* a Python float that is the quotient of two integers
Frac(n, d) == [num |-> n, den |-> d]

\* 0.0
Zero == Frac(0, 1)

RECURSIVE SumSeq(_)
SumSeq(s) == IF s = <<>> THEN 0 ELSE Head(s) + SumSeq(Tail(s))

\* np.mean(xs) and sum(xs) / len(xs)
Mean(xs) == Frac(SumSeq(xs), Len(xs))

\* a variant of sort_values that leaves the rows as they stand
sort_values_skipped(commits_df) == commits_df

\* DataFrame.sort_values("date") on the date column
sort_values(commits_df) == SortSeq(commits_df, LAMBDA a, b : a < b)

\* sorted(set) for a set of integers
RECURSIVE sorted(_)
sorted(S) ==
    IF S = {} THEN <<>>
    ELSE LET m == CHOOSE x \in S : \A y \in S : x <= y
         IN  <<m>> \o sorted(S \ {m})

(***************************************************************************)
(*                        temporal.detect_sessions                         *)
(***************************************************************************)
DefaultGapThresholdMinutes == 30

\* a variant of SessionOf that takes the first commit of the session for its end
SessionOf_ends_at_start(current_session_commits) ==
    LET session_start == current_session_commits[1]
        session_end == current_session_commits[1]
    IN  [start |-> session_start,
         end |-> session_end,
         duration |-> session_end - session_start,
         commits |-> Len(current_session_commits)]

\* lines 162-169 and 174-181: the dict appended for a finished session
SessionOf(current_session_commits) ==
    LET session_start == current_session_commits[1]
        session_end == current_session_commits[Len(current_session_commits)]
    IN  [start |-> session_start,
         end |-> session_end,
         duration |-> session_end - session_start,
         commits |-> Len(current_session_commits)]

\* a variant of FlushLast that forgets the last open session
FlushLast_forgotten(result, current_session_commits) == result

\* lines 172-181: the last open session is appended
FlushLast(result, current_session_commits) ==
    IF current_session_commits # <<>>
      THEN Append(result, SessionOf(current_session_commits))
      ELSE result

\* a variant of ContinuesSession that closes the session at a gap equal to the threshold
ContinuesSession_strict(gap_minutes, gap_threshold_minutes) ==
    gap_minutes < gap_threshold_minutes

\* line 156
ContinuesSession(gap_minutes, gap_threshold_minutes) ==
    gap_minutes <= gap_threshold_minutes

\* a variant of SessionLoop that measures the gap from the first commit of
\* the open session
RECURSIVE SessionLoop_gap_to_start(_, _, _, _, _)
SessionLoop_gap_to_start(df, i, current_session_commits, result, gap_threshold_minutes) ==
    IF i > Len(df) THEN FlushLast(result, current_session_commits)
    ELSE LET prev_time == current_session_commits[1]
             curr_time == df[i]
             gap_minutes == curr_time - prev_time
         IN  IF ContinuesSession(gap_minutes, gap_threshold_minutes)
               THEN SessionLoop_gap_to_start(df, i + 1,
                                             Append(current_session_commits, curr_time),
                                             result, gap_threshold_minutes)
               ELSE SessionLoop_gap_to_start(df, i + 1, <<curr_time>>,
                                             Append(result, SessionOf(current_session_commits)),
                                             gap_threshold_minutes)

\* lines 151-181: the loop from row i on (rows are numbered from 1 here)
RECURSIVE SessionLoop(_, _, _, _, _)
SessionLoop(df, i, current_session_commits, result, gap_threshold_minutes) ==
    IF i > Len(df) THEN FlushLast(result, current_session_commits)
    ELSE LET prev_time == current_session_commits[Len(current_session_commits)]
             curr_time == df[i]
             gap_minutes == curr_time - prev_time
         IN  IF ContinuesSession(gap_minutes, gap_threshold_minutes)
               THEN SessionLoop(df, i + 1, Append(current_session_commits, curr_time),
                                result, gap_threshold_minutes)
               ELSE SessionLoop(df, i + 1, <<curr_time>>,
                                IF Len(current_session_commits) > 0
                                  THEN Append(result, SessionOf(current_session_commits))
                                  ELSE result,
                                gap_threshold_minutes)

\* lines 147-183: the scan of the rows of df in the order they stand in
ScanSessions(df, gap_threshold_minutes) ==
    SessionLoop(df, 2, <<df[1]>>, <<>>, gap_threshold_minutes)

detect_sessions(commits_df, gap_threshold_minutes) ==
    IF commits_df = <<>> THEN <<>>
    ELSE ScanSessions(sort_values(commits_df), gap_threshold_minutes)

(***************************************************************************)
(*                   temporal.calculate_streak_detailed                    *)
(***************************************************************************)

\* a variant of UniqueDates that keeps one date for each commit
UniqueDates_per_commit(commits_df) ==
    SortSeq([i \in DOMAIN commits_df |-> date_only(commits_df[i])], LAMBDA a, b : a < b)

\* line 266: sorted(df["date_only"].unique())
UniqueDates(commits_df) ==
    sorted({date_only(commits_df[i]) : i \in DOMAIN commits_df})

\* a variant of CurrentLoop that goes on past a gap instead of stopping at it
RECURSIVE CurrentLoop_past_gaps(_, _, _)
CurrentLoop_past_gaps(dates, i, current) ==
    IF i < 2 THEN current
    ELSE IF dates[i] - dates[i - 1] = 1
           THEN CurrentLoop_past_gaps(dates, i - 1, current + 1)
           ELSE CurrentLoop_past_gaps(dates, i - 1, current)

\* lines 277-282: the backward loop, at index i (indices are numbered from 1 here)
RECURSIVE CurrentLoop(_, _, _)
CurrentLoop(dates, i, current) ==
    IF i < 2 THEN current
    ELSE IF dates[i] - dates[i - 1] = 1
           THEN CurrentLoop(dates, i - 1, current + 1)
           ELSE current

\* a variant of ExceedsLongest that lets a later run of equal length win
ExceedsLongest_or_equals(current_streak_len, longest) == current_streak_len >= longest

\* line 293
ExceedsLongest(current_streak_len, longest) == current_streak_len > longest

\* lines 285-298: the forward loop, at index i, with the loop's four variables
RECURSIVE LongestLoop(_, _, _, _, _, _)
LongestLoop(dates, i, longest, current_streak_len, streak_start_idx, longest_start_idx) ==
    IF i > Len(dates)
      THEN [longest |-> longest, longest_start_idx |-> longest_start_idx]
    ELSE IF dates[i] - dates[i - 1] = 1
      THEN IF ExceedsLongest(current_streak_len + 1, longest)
             THEN LongestLoop(dates, i + 1, current_streak_len + 1,
                              current_streak_len + 1, streak_start_idx, streak_start_idx)
             ELSE LongestLoop(dates, i + 1, longest,
                              current_streak_len + 1, streak_start_idx, longest_start_idx)
      ELSE LongestLoop(dates, i + 1, longest, 1, i, longest_start_idx)

\* a variant of LongestDates that takes the range from the first date on
LongestDates_from_first(dates, longest, longest_start_idx) ==
    IF longest > 1
      THEN <<DateStr(dates[1]), DateStr(dates[longest])>>
      ELSE <<"", "">>

\* lines 300-305: the date pair of the longest streak
LongestDates(dates, longest, longest_start_idx) ==
    IF longest > 1
      THEN <<DateStr(dates[longest_start_idx]),
             DateStr(dates[longest_start_idx + longest - 1])>>
      ELSE <<"", "">>

\* a variant of Gaps that collects the days without a commit between two dates
RECURSIVE Gaps_days_between(_, _)
Gaps_days_between(dates, i) ==
    IF i > Len(dates) THEN <<>>
    ELSE LET gap == dates[i] - dates[i - 1]
         IN  (IF gap > 1 THEN <<gap - 1>> ELSE <<>>) \o Gaps_days_between(dates, i + 1)

\* lines 308-312: the gaps of more than one day between adjacent dates
RECURSIVE Gaps(_, _)
Gaps(dates, i) ==
    IF i > Len(dates) THEN <<>>
    ELSE LET gap == dates[i] - dates[i - 1]
         IN  (IF gap > 1 THEN <<gap>> ELSE <<>>) \o Gaps(dates, i + 1)

\* a variant of AvgGap that reports the total of the gaps instead of their mean
AvgGap_total(gaps) == IF gaps # <<>> THEN Frac(SumSeq(gaps), 1) ELSE Zero

\* line 313
AvgGap(gaps) == IF gaps # <<>> THEN Mean(gaps) ELSE Zero

\* lines 276-320: the result for the sorted distinct dates
StreaksOf(dates) ==
    LET l == LongestLoop(dates, 2, 1, 1, 1, 1)
    IN  [current |-> CurrentLoop(dates, Len(dates), 1),
         longest |-> l.longest,
         dates |-> LongestDates(dates, l.longest, l.longest_start_idx),
         avg_gap |-> AvgGap(Gaps(dates, 2))]

\* a variant of calculate_streak_detailed without the early return of lines 268-274
calculate_streak_detailed_unguarded(commits_df) == StreaksOf(UniqueDates(commits_df))

calculate_streak_detailed(commits_df) ==
    LET dates == UniqueDates(commits_df) IN
    IF dates = <<>>
      THEN [current |-> 0, longest |-> 0, dates |-> <<"", "">>, avg_gap |-> Zero]
      ELSE StreaksOf(dates)

(***************************************************************************)
(*                        analyze.calculate_metrics                        *)
(***************************************************************************)

\* max(a, b)
max(a, b) == IF a >= b THEN a ELSE b

\* analyze.py lines 115-120: the loop over the sorted distinct dates, at index
\* i (indices are numbered from 1 here), with its two variables
RECURSIVE MetricsStreakLoop(_, _, _, _)
MetricsStreakLoop(dates, i, streak, max_streak) ==
    IF i > Len(dates) THEN [streak |-> streak, max_streak |-> max_streak]
    ELSE IF dates[i] - dates[i - 1] = 1
      THEN MetricsStreakLoop(dates, i + 1, streak + 1, max_streak)
      ELSE MetricsStreakLoop(dates, i + 1, 1, max(max_streak, streak))

\* a variant of calculate_metrics that leaves out the run still open when the
\* loop ends
calculate_metrics_without_last_run(commits_df) ==
    IF commits_df = <<>>
      THEN [total_commits |-> 0, coding_days |-> 0, longest_streak |-> 0]
      ELSE LET dates == UniqueDates(commits_df)
               loop == MetricsStreakLoop(dates, 2, 1, 1)
           IN  [total_commits |-> Len(commits_df),
                coding_days |-> Len(dates),
                longest_streak |-> loop.max_streak]

\* analyze.py lines 68-123, the fields computed from the dates of the commits;
\* an empty DataFrame gives the defaults of ProductivityMetrics
calculate_metrics(commits_df) ==
    IF commits_df = <<>>
      THEN [total_commits |-> 0, coding_days |-> 0, longest_streak |-> 0]
      ELSE LET dates == UniqueDates(commits_df)
               loop == MetricsStreakLoop(dates, 2, 1, 1)
           IN  [total_commits |-> Len(commits_df),
                coding_days |-> Len(dates),
                longest_streak |-> max(loop.max_streak, loop.streak)]

(***************************************************************************)
(*                     temporal.analyze_time_patterns                      *)
(***************************************************************************)

\* line 73: np.zeros((7, 24), dtype=int); row d and column h of the matrix
\* are heatmap[d + 1][h + 1] here, sequences being numbered from 1
ZeroHeatmap == [d \in 1..7 |-> [h \in 1..24 |-> 0]]

\* a variant of HeatmapLoop that marks a cell instead of counting in it
RECURSIVE HeatmapLoop_marks(_, _, _)
HeatmapLoop_marks(df, i, heatmap) ==
    IF i > Len(df) THEN heatmap
    ELSE HeatmapLoop_marks(df, i + 1,
                           [heatmap EXCEPT ![day_of_week(df[i]) + 1][hour_of(df[i]) + 1] = 1])

\* lines 74-75: the loop over the rows, from row i on
RECURSIVE HeatmapLoop(_, _, _)
HeatmapLoop(df, i, heatmap) ==
    IF i > Len(df) THEN heatmap
    ELSE HeatmapLoop(df, i + 1,
                     [heatmap EXCEPT ![day_of_week(df[i]) + 1][hour_of(df[i]) + 1] = @ + 1])

\* line 78: df.groupby("hour").size(), a Series indexed by the hours that
\* occur, in ascending order; an entry is <<hour, count>>
GroupByHourSize(df) ==
    LET hours == sorted({hour_of(df[i]) : i \in DOMAIN df})
    IN  [k \in DOMAIN hours |->
            <<hours[k], Cardinality({i \in DOMAIN df : hour_of(df[i]) = hours[k]})>>]

\* the sequence s without its k-th entry
Without(s, k) == SubSeq(s, 1, k - 1) \o SubSeq(s, k + 1, Len(s))

\* a variant of nlargest that prefers the last of the entries of equal value
RECURSIVE nlargest_keep_last(_, _)
nlargest_keep_last(series, n) ==
    IF n = 0 \/ series = <<>> THEN <<>>
    ELSE LET k == CHOOSE k \in DOMAIN series :
                      /\ \A j \in DOMAIN series : series[j][2] <= series[k][2]
                      /\ \A j \in (k + 1)..Len(series) : series[j][2] < series[k][2]
         IN  <<series[k]>> \o nlargest_keep_last(Without(series, k), n - 1)

\* Series.nlargest(n): the n largest entries, largest first, entries of equal
\* value in their order in the Series (keep = "first")
RECURSIVE nlargest(_, _)
nlargest(series, n) ==
    IF n = 0 \/ series = <<>> THEN <<>>
    ELSE LET k == CHOOSE k \in DOMAIN series :
                      /\ \A j \in DOMAIN series : series[j][2] <= series[k][2]
                      /\ \A j \in 1..(k - 1) : series[j][2] < series[k][2]
         IN  <<series[k]>> \o nlargest(Without(series, k), n - 1)

\* series[a:b] of a Series whose index holds integers: an integer slice
\* selects by POSITION (rows a .. b-1, counted from 0), not by index label
PositionalSlice(series, a, b) ==
    IF a + 1 > Len(series) THEN <<>>
    ELSE SubSeq(series, a + 1, IF b < Len(series) THEN b ELSE Len(series))

\* Series.sum() of a Series of <<hour, count>> entries
SumCounts(series) == SumSeq([k \in DOMAIN series |-> series[k][2]])

\* line 82: hourly_counts[6:12].sum()
morning_commits(hourly_counts) == SumCounts(PositionalSlice(hourly_counts, 6, 12))

\* a variant of evening_commits without the slice [0:2]
evening_commits_without_small_hours(hourly_counts) ==
    SumCounts(PositionalSlice(hourly_counts, 18, 24))

\* line 83: hourly_counts[18:24].sum() + hourly_counts[0:2].sum()
evening_commits(hourly_counts) ==
    SumCounts(PositionalSlice(hourly_counts, 18, 24))
        + SumCounts(PositionalSlice(hourly_counts, 0, 2))

\* a variant of _classify_chronotype whose two thresholds are inclusive
_classify_chronotype_inclusive(morning, evening) ==
    IF morning = 0 /\ evening = 0 THEN "mixed"
    ELSE LET total == morning + evening IN
         IF 10 * morning >= 6 * total THEN "early bird"
         ELSE IF 10 * morning <= 4 * total THEN "night owl"
         ELSE "mixed"

\* ratio > 0.6 and ratio < 0.4 are decided on the exact quotient
_classify_chronotype(morning, evening) ==
    IF morning = 0 /\ evening = 0 THEN "mixed"
    ELSE LET total == morning + evening IN
         IF 10 * morning > 6 * total THEN "early bird"
         ELSE IF 10 * morning < 4 * total THEN "night owl"
         ELSE "mixed"

\* r > n/10 and r < n/10 for a quotient r and a decimal threshold
Above(r, tenths) == 10 * r.num > tenths * r.den

Below(r, tenths) == 10 * r.num < tenths * r.den

\* a variant of _interpret_work_life that tests the weekend ratio alone first
_interpret_work_life_weekend_first(weekend_ratio, after_hours_pct) ==
    IF Above(weekend_ratio, 3) THEN "Significant weekend work"
    ELSE IF Above(weekend_ratio, 3) /\ Above(after_hours_pct, 5)
      THEN "High weekend + after-hours activity"
    ELSE IF Above(after_hours_pct, 5) THEN "Heavy after-hours coding"
    ELSE IF Below(weekend_ratio, 1) /\ Below(after_hours_pct, 2)
      THEN "Good work/life separation"
    ELSE "Moderate off-hours activity"

\* lines 241-252
_interpret_work_life(weekend_ratio, after_hours_pct) ==
    IF Above(weekend_ratio, 3) /\ Above(after_hours_pct, 5)
      THEN "High weekend + after-hours activity"
    ELSE IF Above(weekend_ratio, 3) THEN "Significant weekend work"
    ELSE IF Above(after_hours_pct, 5) THEN "Heavy after-hours coding"
    ELSE IF Below(weekend_ratio, 1) /\ Below(after_hours_pct, 2)
      THEN "Good work/life separation"
    ELSE "Moderate off-hours activity"

\* a variant of WorkLifeRatios whose after-hours ratio is taken over the
\* commits of all seven days
WorkLifeRatios_all_days(df) ==
    LET is_weekend == {i \in DOMAIN df : day_of_week(df[i]) >= 5}
        is_after_hours == {i \in DOMAIN df : hour_of(df[i]) < 9 \/ hour_of(df[i]) >= 18}
    IN  [weekend_ratio |-> Frac(Cardinality(is_weekend), Len(df)),
         after_hours_pct |-> Frac(Cardinality(is_after_hours), Len(df))]

\* lines 87-93
WorkLifeRatios(df) ==
    LET is_weekend == {i \in DOMAIN df : day_of_week(df[i]) >= 5}
        is_weekday == DOMAIN df \ is_weekend
        is_after_hours == {i \in DOMAIN df : hour_of(df[i]) < 9 \/ hour_of(df[i]) >= 18}
        weekday_after_hours == Cardinality(is_weekday \cap is_after_hours)
    IN  [weekend_ratio |-> Frac(Cardinality(is_weekend), Len(df)),
         after_hours_pct |-> IF Cardinality(is_weekday) > 0
                               THEN Frac(weekday_after_hours, Cardinality(is_weekday))
                               ELSE Zero]

\* lines 50-65: the result for an empty DataFrame
EmptyMetrics ==
    [hourly_heatmap |-> ZeroHeatmap,
     peak_hours |-> <<>>,
     weekend_commit_ratio |-> Zero,
     after_hours_percentage |-> Zero,
     work_life_interpretation |-> "No data",
     chronotype |-> "mixed",
     session_count |-> 0,
     avg_session_duration_minutes |-> Zero,
     commits_per_session |-> Zero,
     current_streak |-> 0,
     longest_streak |-> 0,
     longest_streak_dates |-> <<"", "">>,
     avg_gap_between_streaks |-> Zero]

analyze_time_patterns(commits_df) ==
    IF commits_df = <<>> THEN EmptyMetrics
    ELSE LET df == commits_df
             hourly_counts == GroupByHourSize(df)
             ratios == WorkLifeRatios(df)
             found == detect_sessions(df, DefaultGapThresholdMinutes)
             streak == calculate_streak_detailed(df)
         IN  [hourly_heatmap |-> HeatmapLoop(df, 1, ZeroHeatmap),
              peak_hours |-> nlargest(hourly_counts, 3),
              weekend_commit_ratio |-> ratios.weekend_ratio,
              after_hours_percentage |-> ratios.after_hours_pct,
              work_life_interpretation |->
                  _interpret_work_life(ratios.weekend_ratio, ratios.after_hours_pct),
              chronotype |-> _classify_chronotype(morning_commits(hourly_counts),
                                                  evening_commits(hourly_counts)),
              session_count |-> Len(found),
              avg_session_duration_minutes |->
                  IF found # <<>>
                    THEN Mean([k \in DOMAIN found |-> found[k].duration]) ELSE Zero,
              commits_per_session |->
                  IF found # <<>>
                    THEN Mean([k \in DOMAIN found |-> found[k].commits]) ELSE Zero,
              current_streak |-> streak.current,
              longest_streak |-> streak.longest,
              longest_streak_dates |-> streak.dates,
              avg_gap_between_streaks |-> streak.avg_gap]

(***************************************************************************)
(*                          Inputs and bounds                              *)
(***************************************************************************)

\* commit messages: with and without markers, in several cases and layouts
Messages ==
    { "",
      "Fix typo in README",
      "Add parser\n\nCo-Authored-By: Claude <noreply@anthropic.com>",
      "Add lexer\n\nCo-Authored-By: Claude <bot@example.com>",
      "Generated with Cursor\n\nCo-Authored-By: Copilot\nCo-Authored-By: Claude <noreply@anthropic.com>",
      "Refactor\n\nco-authored-by:claude",
      "Fix build\n\nCo-Authored-By: Claude",
      "Generated with Claude Code",
      "Generated with Copilot on Azure OpenAI",
      "Generated with Cursor, then Generated with Aider",
      "# Generated with Codex",
      "# Generated with Cursor\nGenerated with Aider",
      "Co-Authored-By: GitHub Copilot <copilot@github.com>\nGenerated with Claude",
      "Co-Authored-By: Codex",
      "Tidy imports\n\nCo-Authored-By: Cline <cline@example.com>",
      "Generated with Aider",
      "AI-generated changelog",
      "this was llm generated",
      "Upgrade GPT client",
      "Switch provider to OpenAI" }

AuthorNames == {"Alice", "gpt-bot", "Generated Docs Bot"}

AuthorEmails ==
    { "alice@example.com",
      "copilot@github.com",
      "noreply@anthropic.com",
      "Codex@OpenAI.com",
      "ai@jetbrains.com",
      "llm@example.org" }

\* the commit timestamps handed to detect_ai
CommitDates == {0, 1440}

\* the commits handed to detect_ai in a run of several calls
CallCommits ==
    [message : {"Fix typo in README", "Generated with Claude Code"},
     author_name : {"Alice"},
     author_email : {"alice@example.com", "copilot@github.com"},
     date : CommitDates]

\* the commits handed to categorize_commits: an unassisted one, one from the
\* copilot address, two with a claude keyword and one with a fuzzy keyword only
ListCommits ==
    [message : {"Fix typo in README", "Generated with Claude Code"},
     author_name : {"Alice"},
     author_email : {"alice@example.com", "copilot@github.com"},
     date : {0}]
        \cup {[message |-> "this was llm generated", author_name |-> "Alice",
                author_email |-> "alice@example.com", date |-> 0]}

\* the longest list handed to categorize_commits
MaxListCommits == 3

\* the longest run of calls of detect_ai
MaxCalls == 3

\* the longest DataFrame handed to detect_sessions
MaxSessionCommits == 3

\* session timestamps lie on a grid of 10 minutes, from 0 to 10 * MaxTick
MaxTick == 6

SessionTimes == {10 * k : k \in 0..MaxTick}

Thresholds == {20, DefaultGapThresholdMinutes}

\* the longest DataFrame handed to calculate_streak_detailed
MaxStreakCommits == 4

\* streak timestamps: 09:30 on each of the days 0..MaxDay, 00:15 on day 0
\* and 23:30 on day 1
MaxDay == 5

StreakTimes == {1440 * d + 570 : d \in 0..MaxDay} \cup {15, 1440 + 1410}

\* 09:30 on each of the days 0..MaxDay
LongestTimes == {1440 * d + 570 : d \in 0..MaxDay}

\* the longest DataFrame handed to analyze_time_patterns
MaxPatternCommits == 3

\* Monday 01:00, 07:00, 09:00, 13:00, 22:00; Tuesday 07:00; Saturday 09:00, 22:00
PatternTimes ==
    {60 * h : h \in {1, 7, 9, 13, 22}} \cup {1440 + 60 * 7}
        \cup {5 * 1440 + 60 * h : h \in {9, 22}}

\* the longest DataFrame handed to analyze_time_patterns for its peak hours
MaxPeakCommits == 5

\* Monday 07:00, 09:00, 13:00 and 22:00, and Tuesday 07:00: four hours for
\* three places
PeakTimes == {60 * h : h \in {7, 9, 13, 22}} \cup {1440 + 60 * 7}

\* the largest morning count and evening count handed to _classify_chronotype
MaxCount == 7

\* Monday 08:00, 09:00, 17:00 and 18:00, Saturday 08:00 and Sunday 13:00:
\* both sides of the two office-hour limits, and both weekend days
WorkLifeTimes ==
    {60 * h : h \in {8, 9, 17, 18}} \cup {5 * 1440 + 60 * 8, 6 * 1440 + 60 * 13}

\* the largest denominator of a ratio handed to _interpret_work_life
MaxDenominator == 10

\* the ratios in [0, 1] with a denominator up to MaxDenominator
Ratios == {r \in [num : 0..MaxDenominator, den : 1..MaxDenominator] : r.num <= r.den}

\* the sequences over S of length at most n
SeqsUpTo(S, n) == UNION {[1..k -> S] : k \in 0..n}

(***************************************************************************)
(*                         State and operations                            *)
(***************************************************************************)
IdleCommit == [message |-> "", author_name |-> "", author_email |-> "", date |-> 0]

\* The values the result variables hold before their function has returned;
\* none of them is a value the function can return.
NoAIInfo == AIInfo(FALSE, NoAgent, "")

NoSessions == <<[start |-> 0, end |-> 0, duration |-> 0, commits |-> 0]>>

NoStreakInfo == [current |-> -1, longest |-> -1, dates |-> <<"", "">>, avg_gap |-> Zero]

NoMetrics == [EmptyMetrics EXCEPT !.work_life_interpretation = "", !.chronotype = ""]

NoLabel == ""

\* no direct call of a label function is under way
NoArgs == <<>>

\* a dict without the key "solo"
NoCategories == [agent \in {} |-> 0]

NoProductivityMetrics == [total_commits |-> -1, coding_days |-> -1, longest_streak |-> -1]

\* nothing has been called yet
Fresh ==
    /\ ai_info = NoAIInfo
    /\ history = <<>>
    /\ sessions = NoSessions
    /\ streak_info = NoStreakInfo
    /\ metrics = NoMetrics
    /\ label = NoLabel
    /\ categories = NoCategories
    /\ productivity_metrics = NoProductivityMetrics
    /\ called = {}

\* process_commits / categorize_commits: detect_ai on the fields of the commit
DetectAI ==
    /\ "detect_ai" \notin called
    /\ ai_info' = detect_ai(commit.message, commit.author_name,
                            commit.author_email, commit.date)
    /\ history' = Append(history, [commit |-> commit, ai_info |-> ai_info'])
    /\ called' = called \cup {"detect_ai"}
    /\ UNCHANGED <<commit, temporal_vars, label_vars, category_vars, analyze_vars>>

\* the loop of process_commits / categorize_commits, and any other caller:
\* detect_ai on one more commit, whatever was classified before
DetectAIOnNextCommit ==
    /\ Len(history) < MaxCalls
    /\ commit' \in CallCommits
    /\ ai_info' = detect_ai(commit'.message, commit'.author_name,
                            commit'.author_email, commit'.date)
    /\ history' = Append(history, [commit |-> commit', ai_info |-> ai_info'])
    /\ called' = called \cup {"detect_ai"}
    /\ UNCHANGED <<temporal_vars, label_vars, category_vars, analyze_vars>>

DetectSessions ==
    /\ "detect_sessions" \notin called
    /\ sessions' = detect_sessions(commits, gap_threshold)
    /\ called' = called \cup {"detect_sessions"}
    /\ UNCHANGED <<ai_vars, label_vars, category_vars, analyze_vars, commits, gap_threshold, streak_info, metrics>>

CalculateStreakDetailed ==
    /\ "calculate_streak_detailed" \notin called
    /\ streak_info' = calculate_streak_detailed(commits)
    /\ called' = called \cup {"calculate_streak_detailed"}
    /\ UNCHANGED <<ai_vars, label_vars, category_vars, analyze_vars, commits, gap_threshold, sessions, metrics>>

AnalyzeTimePatterns ==
    /\ "analyze_time_patterns" \notin called
    /\ metrics' = analyze_time_patterns(commits)
    /\ called' = called \cup {"analyze_time_patterns"}
    /\ UNCHANGED <<ai_vars, label_vars, category_vars, analyze_vars, commits, gap_threshold, sessions, streak_info>>

\* _classify_chronotype called on a morning count and an evening count
ClassifyChronotype ==
    /\ "_classify_chronotype" \notin called
    /\ label' = _classify_chronotype(args.morning_commits, args.evening_commits)
    /\ called' = called \cup {"_classify_chronotype"}
    /\ UNCHANGED <<ai_vars, temporal_vars, category_vars, analyze_vars, args>>

\* _interpret_work_life called on a weekend ratio and an after-hours ratio
InterpretWorkLife ==
    /\ "_interpret_work_life" \notin called
    /\ args # NoArgs
    /\ label' = _interpret_work_life(args.weekend_ratio, args.after_hours_pct)
    /\ called' = called \cup {"_interpret_work_life"}
    /\ UNCHANGED <<ai_vars, temporal_vars, category_vars, analyze_vars, args>>

\* categorize_commits on the list of commit dicts
CategorizeCommits ==
    /\ "categorize_commits" \notin called
    /\ categories' = categorize_commits(commit_list)
    /\ called' = called \cup {"categorize_commits"}
    /\ UNCHANGED <<ai_vars, temporal_vars, label_vars, analyze_vars, commit_list>>

\* cli.analyze: calculate_metrics on the commits DataFrame
CalculateMetrics ==
    /\ "calculate_metrics" \notin called
    /\ productivity_metrics' = calculate_metrics(commits)
    /\ called' = called \cup {"calculate_metrics"}
    /\ UNCHANGED <<ai_vars, temporal_vars, label_vars, category_vars>>

\* the classifier on one commit
InitAI ==
    /\ commit \in [message : Messages, author_name : AuthorNames,
                   author_email : AuthorEmails, date : CommitDates]
    /\ commits = <<>>
    /\ gap_threshold = DefaultGapThresholdMinutes
    /\ args = NoArgs
    /\ commit_list = <<>>
    /\ Fresh

NextAI == DetectAI

SpecAI == InitAI /\ [][NextAI]_vars

\* the classifier on a run of commits, in any order and with repetitions
InitCalls ==
    /\ commit = IdleCommit
    /\ commits = <<>>
    /\ gap_threshold = DefaultGapThresholdMinutes
    /\ args = NoArgs
    /\ commit_list = <<>>
    /\ Fresh

NextCalls == DetectAIOnNextCommit

SpecCalls == InitCalls /\ [][NextCalls]_vars

\* the categories of every list of commits up to MaxListCommits
InitCategorize ==
    /\ commit = IdleCommit
    /\ commits = <<>>
    /\ gap_threshold = DefaultGapThresholdMinutes
    /\ args = NoArgs
    /\ commit_list \in SeqsUpTo(ListCommits, MaxListCommits)
    /\ Fresh

NextCategorize == CategorizeCommits

SpecCategorize == InitCategorize /\ [][NextCategorize]_vars

\* the session segmenter on a DataFrame in any row order
InitSessions ==
    /\ commit = IdleCommit
    /\ commits \in SeqsUpTo(SessionTimes, MaxSessionCommits)
    /\ gap_threshold \in Thresholds
    /\ args = NoArgs
    /\ commit_list = <<>>
    /\ Fresh

NextSessions == DetectSessions

SpecSessions == InitSessions /\ [][NextSessions]_vars

\* the streak calculator on a DataFrame in any row order
InitStreaks ==
    /\ commit = IdleCommit
    /\ commits \in SeqsUpTo(StreakTimes, MaxStreakCommits)
    /\ gap_threshold = DefaultGapThresholdMinutes
    /\ args = NoArgs
    /\ commit_list = <<>>
    /\ Fresh

NextStreaks == CalculateStreakDetailed

SpecStreaks == InitStreaks /\ [][NextStreaks]_vars

\* the temporal profile of DataFrames with more distinct hours than peak hours
InitPeaks ==
    /\ commit = IdleCommit
    /\ commits \in SeqsUpTo(PeakTimes, MaxPeakCommits)
    /\ gap_threshold = DefaultGapThresholdMinutes
    /\ args = NoArgs
    /\ commit_list = <<>>
    /\ Fresh

NextPeaks == AnalyzeTimePatterns

SpecPeaks == InitPeaks /\ [][NextPeaks]_vars

\* the chronotype of every pair of counts up to MaxCount
InitChronotype ==
    /\ commit = IdleCommit
    /\ commits = <<>>
    /\ gap_threshold = DefaultGapThresholdMinutes
    /\ args \in [morning_commits : 0..MaxCount, evening_commits : 0..MaxCount]
    /\ commit_list = <<>>
    /\ Fresh

NextChronotype == ClassifyChronotype

SpecChronotype == InitChronotype /\ [][NextChronotype]_vars

\* the work/life label: of every pair of ratios, by a direct call of
\* _interpret_work_life, and of a DataFrame, by analyze_time_patterns
InitWorkLife ==
    /\ commit = IdleCommit
    /\ gap_threshold = DefaultGapThresholdMinutes
    /\ \/ /\ args \in [weekend_ratio : Ratios, after_hours_pct : Ratios]
          /\ commits = <<>>
       \/ /\ args = NoArgs
          /\ commits \in SeqsUpTo(WorkLifeTimes, MaxPatternCommits)
    /\ commit_list = <<>>
    /\ Fresh

NextWorkLife ==
    \/ InterpretWorkLife
    \/ AnalyzeTimePatterns

SpecWorkLife == InitWorkLife /\ [][NextWorkLife]_vars

\* the two longest-streak computations on one DataFrame
InitLongest ==
    /\ commit = IdleCommit
    /\ commits \in SeqsUpTo(LongestTimes, MaxStreakCommits)
    /\ gap_threshold = DefaultGapThresholdMinutes
    /\ args = NoArgs
    /\ commit_list = <<>>
    /\ Fresh

NextLongest ==
    \/ CalculateMetrics
    \/ CalculateStreakDetailed

SpecLongest == InitLongest /\ [][NextLongest]_vars

\* the temporal profile, and the two functions it calls, on one DataFrame
Init ==
    /\ commit = IdleCommit
    /\ commits \in SeqsUpTo(PatternTimes, MaxPatternCommits)
    /\ gap_threshold = DefaultGapThresholdMinutes
    /\ args = NoArgs
    /\ commit_list = <<>>
    /\ Fresh

Next ==
    \/ AnalyzeTimePatterns
    \/ DetectSessions
    \/ CalculateStreakDetailed

Spec == Init /\ [][Next]_vars

(***************************************************************************)
(*                        Properties: the classifier                       *)
(***************************************************************************)

\* the rules of one category of the i-th agent, and the text they are tested on
RulesHit(i, kind) ==
    AnyMatch(AI_PATTERNS[i][kind],
             IF kind = "emails" THEN commit.author_email ELSE commit.message)

AgentHit(i) == RulesHit(i, "emails") \/ RulesHit(i, "co_authored") \/ RulesHit(i, "keywords")

RegistryOrder == [i \in DOMAIN AI_PATTERNS |-> AI_PATTERNS[i].agent]

\* C1: the agents are tried in the order claude, copilot, codex, cursor, aider,
\* cline, jetbrains; the result names the first agent any of whose rules
\* matches, whatever rules of later agents match, with confidence high when
\* one of its email or co-authorship rules matches and medium when only a
\* keyword rule does.
C1_AgentMajorOrder ==
    /\ RegistryOrder = <<"claude", "copilot", "codex", "cursor", "aider", "cline", "jetbrains">>
    /\ "detect_ai" \in called =>
         \A i \in DOMAIN AI_PATTERNS :
             (AgentHit(i) /\ \A j \in 1..(i - 1) : ~AgentHit(j)) =>
                 ai_info = AIInfo(TRUE, AI_PATTERNS[i].agent,
                                  IF RulesHit(i, "emails") \/ RulesHit(i, "co_authored")
                                    THEN "high" ELSE "medium")

\* C1 witness: a keyword rule of claude has won over an email rule of copilot
C1_Witness ==
    /\ "detect_ai" \in called
    /\ RulesHit(1, "keywords") /\ ~RulesHit(1, "emails") /\ ~RulesHit(1, "co_authored")
    /\ RulesHit(2, "emails")
    /\ ai_info = AIInfo(TRUE, "claude", "medium")

\* C2 as stated: a commit whose author email is copilot@github.com is
\* classified copilot / high, whatever its message and author name are.
C2_CopilotEmailAnyMessage ==
    ("detect_ai" \in called /\ commit.author_email = "copilot@github.com")
        => ai_info = AIInfo(TRUE, "copilot", "high")

\* C2 amended: a commit whose author email is copilot@github.com is classified
\* copilot / high for every author name and every message that matches no
\* co-authorship or keyword rule of claude.
C2_CopilotEmailUnlessClaudeMarker ==
    ("detect_ai" \in called /\ commit.author_email = "copilot@github.com"
        /\ ~RulesHit(1, "co_authored") /\ ~RulesHit(1, "keywords"))
        => ai_info = AIInfo(TRUE, "copilot", "high")

\* C2 witness: the copilot email has won over a marker of a later agent
C2_Witness ==
    /\ "detect_ai" \in called
    /\ commit.author_email = "copilot@github.com"
    /\ RulesHit(3, "co_authored")
    /\ ai_info = AIInfo(TRUE, "copilot", "high")

\* some rule of some agent of the registry matches the commit
AnyAgentHit == \E i \in DOMAIN AI_PATTERNS : AgentHit(i)

\* message, author name and author email in one text, a space between them
FullText == commit.message \o " " \o commit.author_name \o " " \o commit.author_email

\* the fuzzy keyword kw occurs in text, ignoring case
OccursIn(kw, text) == Contains(Lower(text), Lower(kw))

FuzzyKeywords == {"ai-assisted", "ai generated", "llm", "gpt"}

\* C13: when no agent rule matches, the result is AI-assisted / unknown / low
\* exactly when one of "ai-assisted", "ai generated", "llm", "gpt" occurs,
\* ignoring case, in the concatenation of message, author name and author
\* email; when an agent rule matches the fuzzy scan is not reached (the result
\* is not unknown / low); "this was llm generated" without a marker gives
\* unknown / low.
C13_FuzzyFallback ==
    "detect_ai" \in called =>
        /\ ~AnyAgentHit =>
               (ai_info = AIInfo(TRUE, "unknown", "low")
                   <=> \E kw \in FuzzyKeywords : OccursIn(kw, FullText))
        /\ AnyAgentHit => (ai_info.ai_agent # "unknown" /\ ai_info.confidence # "low")
        /\ (commit.message = "this was llm generated" /\ ~AnyAgentHit) =>
               ai_info = AIInfo(TRUE, "unknown", "low")

\* C13 witness: no marker, and a fuzzy keyword in the author name only
C13_Witness ==
    /\ "detect_ai" \in called
    /\ ~AnyAgentHit
    /\ ~(\E kw \in FuzzyKeywords : OccursIn(kw, commit.message))
    /\ ~(\E kw \in FuzzyKeywords : OccursIn(kw, commit.author_email))
    /\ OccursIn("gpt", commit.author_name)
    /\ ai_info = AIInfo(TRUE, "unknown", "low")

ClaudeTrailer == "Co-Authored-By: Claude <noreply@anthropic.com>"

\* C14: every commit whose message contains the trailer
\* "Co-Authored-By: Claude <noreply@anthropic.com>" is classified AI-assisted /
\* claude / high, whatever the rest of the message, the author name and the
\* author email are.
C14_ClaudeTrailer ==
    ("detect_ai" \in called /\ Contains(commit.message, ClaudeTrailer))
        => ai_info = AIInfo(TRUE, "claude", "high")

\* C14 witness: the trailer after markers of cursor and copilot, on a commit
\* sent from the copilot address
C14_Witness ==
    /\ "detect_ai" \in called
    /\ Contains(commit.message, ClaudeTrailer)
    /\ RulesHit(2, "emails") /\ RulesHit(2, "co_authored") /\ RulesHit(4, "keywords")
    /\ ai_info = AIInfo(TRUE, "claude", "high")

\* some fuzzy keyword occurs in the message, in the author name or in the
\* author email
FuzzyInSomeField ==
    \E kw \in FuzzyKeywords :
        \/ OccursIn(kw, commit.message)
        \/ OccursIn(kw, commit.author_name)
        \/ OccursIn(kw, commit.author_email)

\* C15 as stated: the result is not AI-assisted if and only if no rule of any
\* agent matches and no fuzzy keyword occurs in the message, in the author
\* name or in the author email.
C15_NotAssistedIffNoFieldHasKeyword ==
    "detect_ai" \in called =>
        (ai_info.is_ai_assisted = FALSE <=> (~AnyAgentHit /\ ~FuzzyInSomeField))

\* C15 amended: the result is not AI-assisted if and only if no rule of any
\* agent matches and no fuzzy keyword occurs in the text made of message,
\* author name and author email with one space between them (so that
\* "ai generated" is also found across the end of one field and the start of
\* the next); an ordinary message with a human name and email is not
\* AI-assisted.
C15_NotAssistedIffNoKeywordInFullText ==
    "detect_ai" \in called =>
        /\ ai_info.is_ai_assisted = FALSE <=>
               (~AnyAgentHit /\ ~(\E kw \in FuzzyKeywords : OccursIn(kw, FullText)))
        /\ ai_info.is_ai_assisted = FALSE => ai_info = AIInfo(FALSE, NoAgent, "low")
        /\ (commit.message = "Fix typo in README" /\ commit.author_name = "Alice"
               /\ commit.author_email = "alice@example.com") =>
               ai_info.is_ai_assisted = FALSE

\* C15 witness: no marker and no keyword in any single field, yet "ai generated"
\* across the end of the message and the start of the author name
C15_Witness ==
    /\ "detect_ai" \in called
    /\ ~AnyAgentHit
    /\ ~FuzzyInSomeField
    /\ OccursIn("ai generated", FullText)
    /\ ai_info = AIInfo(TRUE, "unknown", "low")

\* keyword rules of the agents i and j, i registered before j, both match the
\* message, and no email or co-authorship rule of an agent up to i matches
TwoKeywordAgents(i, j) ==
    /\ i < j
    /\ RulesHit(i, "keywords") /\ RulesHit(j, "keywords")
    /\ \A k \in 1..i : ~RulesHit(k, "emails") /\ ~RulesHit(k, "co_authored")

\* C16 as stated: when keyword rules of two agents both match the message and
\* no email or co-authorship rule of an agent at or before the earlier of the
\* two matches, the result names the earlier of the two, with confidence medium.
C16_EarlierOfTwoKeywordAgents ==
    "detect_ai" \in called =>
        \A i, j \in DOMAIN AI_PATTERNS :
            TwoKeywordAgents(i, j) => ai_info = AIInfo(TRUE, AI_PATTERNS[i].agent, "medium")

\* C16 amended: when keyword rules of two agents both match the message, no
\* email or co-authorship rule of an agent at or before the earlier of the two
\* matches, and no keyword rule of an agent registered before the earlier of
\* the two matches either, the result names the earlier of the two, with
\* confidence medium.
C16_EarliestKeywordAgent ==
    "detect_ai" \in called =>
        \A i, j \in DOMAIN AI_PATTERNS :
            (TwoKeywordAgents(i, j) /\ \A k \in 1..(i - 1) : ~RulesHit(k, "keywords"))
                => ai_info = AIInfo(TRUE, AI_PATTERNS[i].agent, "medium")

\* C16 witness: keywords of cursor and of aider in one message, cursor reported
C16_Witness ==
    /\ "detect_ai" \in called
    /\ TwoKeywordAgents(4, 5)
    /\ \A k \in 1..3 : ~AgentHit(k)
    /\ ai_info = AIInfo(TRUE, "cursor", "medium")

\* two calls have the same message, author name and author email
SameText(a, b) ==
    /\ a.commit.message = b.commit.message
    /\ a.commit.author_name = b.commit.author_name
    /\ a.commit.author_email = b.commit.author_email

C27_ClaudeTrailerAlwaysHigh ==
    ("detect_ai" \in called /\ Contains(commit.message, "Co-Authored-By: Claude"))
        => ai_info = AIInfo(TRUE, "claude", "high")

RegisteredAgents == {"claude", "copilot", "codex", "cursor", "aider", "cline", "jetbrains"}

\* C28: every result of detect_ai has one of four shapes: AI-assisted with a
\* registered agent and confidence high, AI-assisted with a registered agent
\* and confidence medium, AI-assisted / "unknown" / low, or not AI-assisted /
\* no agent / low; so it is AI-assisted exactly when an agent label is
\* present, and low together with AI-assisted means agent "unknown".
C28_FourShapes ==
    "detect_ai" \in called =>
        /\ \/ ai_info \in {AIInfo(TRUE, a, "high") : a \in RegisteredAgents}
           \/ ai_info \in {AIInfo(TRUE, a, "medium") : a \in RegisteredAgents}
           \/ ai_info = AIInfo(TRUE, "unknown", "low")
           \/ ai_info = AIInfo(FALSE, NoAgent, "low")
        /\ ai_info.is_ai_assisted <=> ai_info.ai_agent # NoAgent
        /\ (ai_info.confidence = "low" /\ ai_info.is_ai_assisted) => ai_info.ai_agent = "unknown"
        /\ RegisteredAgents = {AI_PATTERNS[i].agent : i \in DOMAIN AI_PATTERNS}

\* C28 witness: a fuzzy hit in the author email alone, reported as unknown / low
C28_Witness ==
    /\ "detect_ai" \in called
    /\ commit.author_email = "llm@example.org"
    /\ commit.author_name = "Alice"
    /\ commit.message = "Fix typo in README"
    /\ ai_info.is_ai_assisted /\ ai_info.ai_agent = "unknown" /\ ai_info.confidence = "low"

CategoriesReturned == "categorize_commits" \in called

\* the sum of the counts of the keys in K
RECURSIVE SumOfCounts(_)
SumOfCounts(K) ==
    IF K = {} THEN 0
    ELSE LET k == CHOOSE k \in K : TRUE
         IN  categories[k] + SumOfCounts(K \ {k})

\* the result of detect_ai on the i-th commit of the list
InfoOf(i) ==
    detect_ai(commit_list[i].message, commit_list[i].author_name,
              commit_list[i].author_email, commit_list[i].date)

\* C29: after categorize_commits the counts of the returned dict add up to the
\* number of commits, the key "solo" is present and counts the commits that
\* detect_ai classified as not AI-assisted, and every other key present has a
\* count of at least 1.
C29_CategoryCounts ==
    CategoriesReturned =>
        /\ SumOfCounts(DOMAIN categories) = Len(commit_list)
        /\ "solo" \in DOMAIN categories
        /\ categories["solo"] =
               Cardinality({i \in DOMAIN commit_list : ~InfoOf(i).is_ai_assisted})
        /\ \A k \in DOMAIN categories \ {"solo"} : categories[k] >= 1

\* C29 witness: two claude commits and a copilot commit, and no solo commit
C29_Witness ==
    /\ CategoriesReturned
    /\ Len(commit_list) = 3
    /\ DOMAIN categories = {"solo", "claude", "copilot"}
    /\ categories["solo"] = 0 /\ categories["claude"] = 2 /\ categories["copilot"] = 1

(***************************************************************************)
(*                     Properties: the chronotype counts                   *)
(***************************************************************************)

\* the number of rows of the DataFrame whose hour is in H
CommitsInHours(H) == Cardinality({i \in DOMAIN commits : hour_of(commits[i]) \in H})

\* C3: for every non-empty commit set, also when some hours of the day have
\* no commit, the morning count handed to the chronotype classifier is the
\* number of commits with an hour in 6..11, and the evening count the number
\* of commits with an hour in 18..23 or 0..1.
C3_MorningEveningCounts ==
    ("analyze_time_patterns" \in called /\ commits # <<>>) =>
        /\ morning_commits(GroupByHourSize(commits)) = CommitsInHours(6..11)
        /\ evening_commits(GroupByHourSize(commits)) = CommitsInHours((18..23) \cup (0..1))

PatternsReturned == "analyze_time_patterns" \in called

\* the rows of the DataFrame committed on weekday d (Monday = 0) in hour h
RowsAt(d, h) ==
    {i \in DOMAIN commits : day_of_week(commits[i]) = d /\ hour_of(commits[i]) = h}

\* C18: for every non-empty commit set the heatmap is a 7x24 matrix of
\* non-negative integers whose cell [weekday, hour] (Monday = 0 .. Sunday = 6,
\* hour 0..23) is the number of commits with that weekday and hour, and the
\* sum of all cells is the number of commits.
C18_Heatmap ==
    (PatternsReturned /\ commits # <<>>) =>
        /\ Len(metrics.hourly_heatmap) = 7
        /\ \A d \in 0..6 :
               /\ Len(metrics.hourly_heatmap[d + 1]) = 24
               /\ \A h \in 0..23 :
                      /\ metrics.hourly_heatmap[d + 1][h + 1] \in Nat
                      /\ metrics.hourly_heatmap[d + 1][h + 1] = Cardinality(RowsAt(d, h))
        /\ SumSeq([d \in 1..7 |-> SumSeq(metrics.hourly_heatmap[d])]) = Len(commits)

\* C18 witness: two commits in the cell of Monday 07:00 and one on Saturday 22:00
C18_Witness ==
    /\ PatternsReturned
    /\ Len(commits) = 3
    /\ metrics.hourly_heatmap[1][8] = 2
    /\ metrics.hourly_heatmap[6][23] = 1

\* the hours of the day in which there is a commit
HoursWithCommits == {hour_of(commits[i]) : i \in DOMAIN commits}

\* the hours listed in peak_hours
PeakHoursListed == {metrics.peak_hours[k][1] : k \in DOMAIN metrics.peak_hours}

\* C19: peak_hours lists min(3, number of distinct hours with commits) pairs
\* (hour, number of commits in that hour over all weekdays), by count
\* descending and, for equal counts, by hour ascending; no hour left out has a
\* larger count than a listed hour, nor an equal count and a smaller hour
\* than a listed hour of that count.
C19_PeakHours ==
    PatternsReturned =>
        LET peak == metrics.peak_hours IN
        /\ Len(peak) = IF Cardinality(HoursWithCommits) < 3
                         THEN Cardinality(HoursWithCommits) ELSE 3
        /\ \A k \in DOMAIN peak :
               /\ peak[k][1] \in HoursWithCommits
               /\ peak[k][2] = CommitsInHours({peak[k][1]})
        /\ \A k, l \in DOMAIN peak :
               k < l => \/ peak[k][2] > peak[l][2]
                        \/ peak[k][2] = peak[l][2] /\ peak[k][1] < peak[l][1]
        /\ \A h \in HoursWithCommits \ PeakHoursListed :
               \A k \in DOMAIN peak :
                   /\ CommitsInHours({h}) <= peak[k][2]
                   /\ CommitsInHours({h}) = peak[k][2] => h > peak[k][1]

\* C19 witness: four hours with commits; 07:00 counted over two weekdays comes
\* first, and of the three hours with one commit the two earliest follow
C19_Witness ==
    /\ PatternsReturned
    /\ HoursWithCommits = {7, 9, 13, 22}
    /\ RowsAt(0, 7) # {} /\ RowsAt(1, 7) # {}
    /\ metrics.peak_hours = << <<7, 2>>, <<9, 1>>, <<13, 1>> >>

\* C20: every commit set all of whose commits have hour 22 (there is at least
\* one) is given the chronotype "night owl".
C20_AllAtTwentyTwo ==
    (PatternsReturned /\ commits # <<>> /\ HoursWithCommits = {22})
        => metrics.chronotype = "night owl"

\* C20 witness: commits at 22:00 on a Monday and on a Saturday, and no other
C20_Witness ==
    /\ PatternsReturned
    /\ HoursWithCommits = {22}
    /\ RowsAt(0, 22) # {} /\ RowsAt(5, 22) # {}
    /\ metrics.chronotype = "night owl"

ChronotypeReturned == "_classify_chronotype" \in called

\* C21: _classify_chronotype returns "mixed" when both counts are 0;
\* otherwise, with ratio = morning / (morning + evening), it returns
\* "early bird" exactly when ratio > 0.6 (2 * morning > 3 * evening),
\* "night owl" exactly when ratio < 0.4 (3 * morning < 2 * evening) and
\* "mixed" otherwise; ratios of exactly 0.6 and exactly 0.4 give "mixed".
C21_ChronotypeThresholds ==
    ChronotypeReturned =>
        LET m == args.morning_commits
            e == args.evening_commits
        IN  /\ label \in {"early bird", "night owl", "mixed"}
            /\ (m = 0 /\ e = 0) => label = "mixed"
            /\ (m + e > 0) =>
                   /\ label = "early bird" <=> 2 * m > 3 * e
                   /\ label = "night owl" <=> 3 * m < 2 * e
            /\ (m + e > 0 /\ (5 * m = 3 * (m + e) \/ 5 * m = 2 * (m + e))) => label = "mixed"

\* C21 witness: 3 morning and 2 evening commits, a ratio of exactly 0.6
C21_Witness ==
    /\ ChronotypeReturned
    /\ args = [morning_commits |-> 3, evening_commits |-> 2]
    /\ label = "mixed"

\* the label of the first row of the table that the ratios w and a satisfy
WorkLifeTable(w, a) ==
    CASE 10 * w.num > 3 * w.den /\ 10 * a.num > 5 * a.den
             -> "High weekend + after-hours activity"
      [] 10 * w.num > 3 * w.den /\ ~(10 * a.num > 5 * a.den)
             -> "Significant weekend work"
      [] ~(10 * w.num > 3 * w.den) /\ 10 * a.num > 5 * a.den
             -> "Heavy after-hours coding"
      [] ~(10 * w.num > 3 * w.den) /\ ~(10 * a.num > 5 * a.den)
           /\ 10 * w.num < w.den /\ 10 * a.num < 2 * a.den
             -> "Good work/life separation"
      [] OTHER -> "Moderate off-hours activity"

\* C22: the work/life label is the first match of: weekend ratio > 0.3 and
\* after-hours ratio > 0.5, "High weekend + after-hours activity"; weekend
\* ratio > 0.3, "Significant weekend work"; after-hours ratio > 0.5, "Heavy
\* after-hours coding"; weekend ratio < 0.1 and after-hours ratio < 0.2,
\* "Good work/life separation"; otherwise "Moderate off-hours activity".
\* Every pair of ratios in [0, 1] gets one of these five labels, and
\* "No data" is the label of the empty commit set only.
C22_WorkLifeLabel ==
    /\ "_interpret_work_life" \in called =>
           /\ label = WorkLifeTable(args.weekend_ratio, args.after_hours_pct)
           /\ label # "No data"
    /\ PatternsReturned =>
           /\ metrics.work_life_interpretation = "No data" <=> commits = <<>>
           /\ commits # <<>> =>
                  metrics.work_life_interpretation =
                      WorkLifeTable(metrics.weekend_commit_ratio,
                                    metrics.after_hours_percentage)

\* C22 witness: both ratios above their thresholds, the first row has won
\* over the second and the third
C22_Witness ==
    /\ "_interpret_work_life" \in called
    /\ args = [weekend_ratio |-> Frac(2, 5), after_hours_pct |-> Frac(3, 5)]
    /\ label = "High weekend + after-hours activity"

\* the rows committed on a Saturday or a Sunday, on Monday .. Friday, and
\* before 09:00 or from 18:00 on
WeekendRows == {i \in DOMAIN commits : day_of_week(commits[i]) \in {5, 6}}

WeekdayRows == {i \in DOMAIN commits : day_of_week(commits[i]) \in 0..4}

AfterHoursRows ==
    {i \in DOMAIN commits : hour_of(commits[i]) < 9 \/ hour_of(commits[i]) >= 18}

\* the quotient r is n / d
IsQuotient(r, n, d) == r.den > 0 /\ r.num * d = n * r.den

\* C23: for every non-empty commit set the weekend ratio is (commits on
\* Saturday or Sunday) / (all commits), and the after-hours ratio is (commits
\* on Monday..Friday with hour < 9 or hour >= 18) / (commits on
\* Monday..Friday), weekend commits being in neither its numerator nor its
\* denominator, and 0 when there is no weekday commit; both lie in [0, 1].
C23_WorkLifeRatios ==
    (PatternsReturned /\ commits # <<>>) =>
        LET w == metrics.weekend_commit_ratio
            a == metrics.after_hours_percentage
        IN  /\ IsQuotient(w, Cardinality(WeekendRows), Len(commits))
            /\ IF WeekdayRows = {}
                 THEN a.num = 0
                 ELSE IsQuotient(a, Cardinality(WeekdayRows \cap AfterHoursRows),
                                 Cardinality(WeekdayRows))
            /\ 0 <= w.num /\ w.num <= w.den
            /\ 0 <= a.num /\ a.num <= a.den

\* C23 witness: an early Saturday commit beside one weekday commit in office
\* hours and one after: weekend ratio 1/3, after-hours ratio 1/2
C23_Witness ==
    /\ PatternsReturned
    /\ Len(commits) = 3
    /\ WeekendRows \cap AfterHoursRows # {}
    /\ metrics.weekend_commit_ratio = Frac(1, 3)
    /\ metrics.after_hours_percentage = Frac(1, 2)

(***************************************************************************)
(*                          Properties: sessions                           *)
(***************************************************************************)
SessionsReturned == "detect_sessions" \in called

\* the rows of the DataFrame whose timestamp lies in the span of session k
RowsIn(k) ==
    {i \in DOMAIN commits : sessions[k].start <= commits[i] /\ commits[i] <= sessions[k].end}

\* C5: the sessions partition the input: every commit lies in the span of
\* exactly one session, a session counts exactly the commits of its span, the
\* counts add up to the number of commits, and a non-empty input gives at
\* least one session.
C5_StrictPartition ==
    SessionsReturned =>
        /\ \A i \in DOMAIN commits :
               Cardinality({k \in DOMAIN sessions : i \in RowsIn(k)}) = 1
        /\ \A k \in DOMAIN sessions : sessions[k].commits = Cardinality(RowsIn(k))
        /\ SumSeq([k \in DOMAIN sessions |-> sessions[k].commits]) = Len(commits)
        /\ commits # <<>> => Len(sessions) >= 1

\* C5 witness: three commits in two sessions, the last one flushed at the end
C5_Witness ==
    /\ SessionsReturned
    /\ Len(commits) = 3
    /\ Len(sessions) = 2
    /\ sessions[1].commits = 2 /\ sessions[2].commits = 1

\* C6: the sessions are maximal runs in time order: start <= end, every commit
\* of a session but its last has a later commit of the session at most the
\* threshold after it, and a session starts more than the threshold after the
\* session before it ends; [T, T+10, T+50] with threshold 30 gives the
\* sessions [T, T+10] with 2 commits and [T+50, T+50] with 1 commit.
C6_MaximalRuns ==
    SessionsReturned =>
        /\ \A k \in DOMAIN sessions :
               /\ sessions[k].start <= sessions[k].end
               /\ sessions[k].duration = sessions[k].end - sessions[k].start
               /\ \A i \in RowsIn(k) :
                      commits[i] < sessions[k].end =>
                          \E j \in RowsIn(k) :
                              /\ commits[j] > commits[i]
                              /\ commits[j] - commits[i] <= gap_threshold
        /\ \A k \in 1..(Len(sessions) - 1) :
               sessions[k + 1].start - sessions[k].end > gap_threshold
        /\ \A T \in SessionTimes :
               (commits = <<T, T + 10, T + 50>> /\ gap_threshold = 30) =>
                   sessions = << [start |-> T, end |-> T + 10, duration |-> 10, commits |-> 2],
                                 [start |-> T + 50, end |-> T + 50, duration |-> 0, commits |-> 1] >>

\* C6 witness: the fixture [T, T+10, T+50] with threshold 30 has been segmented
C6_Witness ==
    /\ SessionsReturned
    /\ commits = <<0, 10, 50>> /\ gap_threshold = 30
    /\ Len(sessions) = 2

\* the rows of df rearranged by the permutation p of their indices
Rearranged(df, p) == [i \in DOMAIN df |-> df[p[i]]]

\* C7 as stated: detect_sessions scans the timestamps in the order supplied.
C7_ScansInSuppliedOrder ==
    (SessionsReturned /\ commits # <<>>) =>
        sessions = ScanSessions(commits, gap_threshold)

\* C7 amended: detect_sessions sorts the rows by date before it scans them, so
\* the same timestamps supplied in any order give the same session list, and
\* the list is in time order.
C7_OrderOfRowsIrrelevant ==
    SessionsReturned =>
        /\ \A p \in Permutations(DOMAIN commits) :
               detect_sessions(Rearranged(commits, p), gap_threshold) = sessions
        /\ \A k \in 1..(Len(sessions) - 1) : sessions[k].end < sessions[k + 1].start

\* C7 witness: rows supplied in descending order, segmented as in ascending order
C7_Witness ==
    /\ SessionsReturned
    /\ Len(commits) = 3
    /\ commits[1] > commits[2] /\ commits[2] > commits[3]
    /\ sessions # ScanSessions(commits, gap_threshold)
    /\ sessions[1].start = commits[3]

\* the rows of the DataFrame that belong to session k, in row order
CommitsOfSession(k) ==
    SelectSeq(commits, LAMBDA c : sessions[k].start <= c /\ c <= sessions[k].end)

\* the rows of the sessions from the k-th on, session after session
RECURSIVE CommitsOfSessionsFrom(_)
CommitsOfSessionsFrom(k) ==
    IF k > Len(sessions) THEN <<>>
    ELSE CommitsOfSession(k) \o CommitsOfSessionsFrom(k + 1)

\* C24: segmentation is idempotent: detect_sessions with the same threshold
\* on the commits of any one session of its result returns exactly that
\* session, and on the commits of all the sessions it returns the same list
\* (same starts, ends, durations and commit counts).
C24_Idempotent ==
    SessionsReturned =>
        /\ \A k \in DOMAIN sessions :
               detect_sessions(CommitsOfSession(k), gap_threshold) = <<sessions[k]>>
        /\ detect_sessions(CommitsOfSessionsFrom(1), gap_threshold) = sessions

\* C24 witness: two sessions, the first of two commits at different times,
\* found again one by one and together
C24_Witness ==
    /\ SessionsReturned
    /\ Len(sessions) = 2
    /\ sessions[1].commits = 2 /\ sessions[1].duration > 0
    /\ detect_sessions(CommitsOfSession(1), gap_threshold) = <<sessions[1]>>
    /\ detect_sessions(CommitsOfSession(2), gap_threshold) = <<sessions[2]>>
    /\ Len(CommitsOfSessionsFrom(1)) = 3

\* the distinct timestamps of the commits
Times == {commits[i] : i \in DOMAIN commits}

\* a and b are timestamps of commits with no commit strictly between them
Successive(a, b) == a < b /\ \A c \in Times : ~(a < c /\ c < b)

\* the timestamps a and b lie in the span of one session
InOneSession(a, b) ==
    \E k \in DOMAIN sessions :
        /\ sessions[k].start <= a /\ a <= sessions[k].end
        /\ sessions[k].start <= b /\ b <= sessions[k].end

\* C25: a commit joins the open session exactly when its gap to the last
\* commit of that session, not to the start of the session, is at most the
\* threshold; a larger gap closes the session and opens a new one at the
\* commit.  A chain of commits each within the threshold of its predecessor
\* is one session, whose duration (end minus start in minutes, 0 for a session
\* of one commit) may exceed the threshold.
C25_GapToLastCommit ==
    SessionsReturned =>
        /\ \A a, b \in Times :
               Successive(a, b) => (InOneSession(a, b) <=> b - a <= gap_threshold)
        /\ \A a, b \in Times :
               (Successive(a, b) /\ b - a > gap_threshold) =>
                   \E k \in 1..(Len(sessions) - 1) :
                       sessions[k].end = a /\ sessions[k + 1].start = b
        /\ \A k \in DOMAIN sessions :
               /\ sessions[k].duration = sessions[k].end - sessions[k].start
               /\ sessions[k].commits = 1 => sessions[k].duration = 0
        /\ (\A a, b \in Times : Successive(a, b) => b - a <= gap_threshold) =>
               \A a, b \in Times : InOneSession(a, b)

\* C25 witness: three commits 20 minutes apart with threshold 20, one session
\* of 40 minutes
C25_Witness ==
    /\ SessionsReturned
    /\ gap_threshold = 20
    /\ Times = {0, 20, 40}
    /\ sessions = <<[start |-> 0, end |-> 40, duration |-> 40, commits |-> 3]>>

(***************************************************************************)
(*                           Properties: streaks                           *)
(***************************************************************************)
StreaksReturned == "calculate_streak_detailed" \in called

\* the distinct calendar days of the commits
Days == {date_only(commits[i]) : i \in DOMAIN commits}

\* a..b is a maximal run of consecutive days with commits
IsRun(a, b) ==
    /\ a <= b
    /\ \A d \in a..b : d \in Days
    /\ (a - 1) \notin Days
    /\ (b + 1) \notin Days

Runs == {r \in Days \X Days : IsRun(r[1], r[2])}

RunLength(r) == r[2] - r[1] + 1

\* the earliest of the runs of maximum length
EarliestLongestRun ==
    CHOOSE r \in Runs :
        /\ \A q \in Runs : RunLength(q) <= RunLength(r)
        /\ \A q \in Runs : RunLength(q) = RunLength(r) => r[1] <= q[1]

\* the distinct dates are D, D+1, D+2, D+4 for some D
IsStreakFixture == \E D \in Days : Days = {D, D + 1, D + 2, D + 4}

\* C4 as stated: for the dates {D, D+1, D+2, D+4} the average gap is 1 day.
C4_FixtureAverageGapOne ==
    (StreaksReturned /\ IsStreakFixture) =>
        streak_info.avg_gap.num = 1 * streak_info.avg_gap.den

\* C4 amended: for the dates {D, D+1, D+2, D+4} the average gap is 2 days, the
\* difference in days between D+2 and D+4.
C4_FixtureAverageGapTwo ==
    (StreaksReturned /\ IsStreakFixture) =>
        streak_info.avg_gap.num = 2 * streak_info.avg_gap.den

\* C4 witness: the streaks of the dates {D, D+1, D+2, D+4} have been computed
C4_Witness ==
    /\ StreaksReturned
    /\ Days = {0, 1, 2, 4}
    /\ streak_info.avg_gap = Frac(2, 1)

\* C9 as stated: for every non-empty input the date range is the first and
\* last day of the earliest run of maximum length, it spans as many days as
\* the longest streak, and it is never the pair of empty strings.
C9_RangeForEveryNonEmptyInput ==
    (StreaksReturned /\ commits # <<>>) =>
        /\ streak_info.dates =
               <<DateStr(EarliestLongestRun[1]), DateStr(EarliestLongestRun[2])>>
        /\ RunLength(EarliestLongestRun) = streak_info.longest
        /\ streak_info.dates # <<"", "">>

\* C9 amended: when the longest streak is at least 2 days the date range is
\* the first and last day of the earliest run of maximum length and spans as
\* many days as the longest streak; the pair of empty strings is reported for
\* an empty input and also for every input without two consecutive days
\* (longest streak 1).
C9_RangeOnlyForStreaksOfTwoDays ==
    StreaksReturned =>
        IF commits # <<>> /\ streak_info.longest > 1
          THEN /\ streak_info.dates =
                      <<DateStr(EarliestLongestRun[1]), DateStr(EarliestLongestRun[2])>>
               /\ RunLength(EarliestLongestRun) = streak_info.longest
          ELSE streak_info.dates = <<"", "">>

\* C9 witness: an isolated day before the longest run, whose range is reported
C9_Witness ==
    /\ StreaksReturned
    /\ Days = {0, 2, 3}
    /\ streak_info.dates = <<"2024-01-03", "2024-01-04">>

\* C10: the longest streak is the length of the longest run of consecutive
\* calendar days; of several runs of that length the earliest is the one
\* recorded; for {D, D+1, D+2, D+4} the longest streak is 3 and covers D..D+2.
C10_LongestStreak ==
    (StreaksReturned /\ commits # <<>>) =>
        /\ streak_info.longest = RunLength(EarliestLongestRun)
        /\ \A r \in Runs : RunLength(r) <= streak_info.longest
        /\ streak_info.longest > 1 =>
               streak_info.dates[1] = DateStr(EarliestLongestRun[1])
        /\ \A D \in Days :
               Days = {D, D + 1, D + 2, D + 4} =>
                   /\ streak_info.longest = 3
                   /\ streak_info.dates = <<DateStr(D), DateStr(D + 2)>>

\* C10 witness: two runs of the maximum length 2, the earlier one recorded
C10_Witness ==
    /\ StreaksReturned
    /\ Days = {0, 1, 3, 4}
    /\ streak_info.longest = 2
    /\ streak_info.dates = <<"2024-01-01", "2024-01-02">>

\* the most recent day with a commit
LatestDay == CHOOSE d \in Days : \A e \in Days : e <= d

\* the run of consecutive days that ends at the most recent day
LatestRun == CHOOSE r \in Runs : r[2] = LatestDay

\* C11: the current streak is the length of the run of consecutive calendar
\* days that ends at the most recent commit date: one more day for each step
\* back of exactly one day, up to the first larger gap; an isolated latest
\* date gives 1, as D+4 does in {D, D+1, D+2, D+4}.
C11_CurrentStreak ==
    (StreaksReturned /\ commits # <<>>) =>
        /\ streak_info.current = RunLength(LatestRun)
        /\ \A n \in 0..(streak_info.current - 1) : (LatestDay - n) \in Days
        /\ (LatestDay - streak_info.current) \notin Days
        /\ (LatestDay - 1) \notin Days => streak_info.current = 1
        /\ IsStreakFixture => streak_info.current = 1

\* C11 witness: the backward scan has stopped at a gap with an older run behind it
C11_Witness ==
    /\ StreaksReturned
    /\ Days = {0, 1, 3, 4}
    /\ streak_info.current = 2

\* the pairs of adjacent distinct dates that lie more than one day apart
GapPairs ==
    {p \in Days \X Days :
        /\ p[2] - p[1] > 1
        /\ \A d \in Days : ~(p[1] < d /\ d < p[2])}

\* the sum of the day differences of a set of date pairs
RECURSIVE SumOfDifferences(_)
SumOfDifferences(P) ==
    IF P = {} THEN 0
    ELSE LET p == CHOOSE p \in P : TRUE
         IN  (p[2] - p[1]) + SumOfDifferences(P \ {p})

\* C12: the average gap is the arithmetic mean of the day differences of all
\* adjacent pairs of sorted distinct dates that lie more than 1 day apart, and
\* 0 when there is no such pair.
C12_AverageGap ==
    StreaksReturned =>
        IF GapPairs = {}
          THEN streak_info.avg_gap.num = 0
          ELSE /\ streak_info.avg_gap.den > 0
               /\ streak_info.avg_gap.num * Cardinality(GapPairs)
                      = SumOfDifferences(GapPairs) * streak_info.avg_gap.den

\* C12 witness: gaps of 2 and 3 days, whose mean 5/2 is not a whole number
C12_Witness ==
    /\ StreaksReturned
    /\ Days = {0, 2, 5}
    /\ streak_info.avg_gap = Frac(5, 2)

\* C26: streak lengths count distinct calendar days, not commits: for every
\* non-empty commit set 1 <= current streak <= longest streak <= number of
\* distinct commit dates, and one more commit on a date that already has a
\* commit changes none of current streak, longest streak, longest-streak
\* dates and average gap.
C26_StreaksCountDays ==
    (StreaksReturned /\ commits # <<>>) =>
        /\ 1 <= streak_info.current
        /\ streak_info.current <= streak_info.longest
        /\ streak_info.longest <= Cardinality(Days)
        /\ \A t \in StreakTimes :
               date_only(t) \in Days =>
                   /\ calculate_streak_detailed(Append(commits, t)) = streak_info
                   /\ calculate_streak_detailed(<<t>> \o commits) = streak_info

\* C26 witness: four commits on two consecutive days, streaks of 2
C26_Witness ==
    /\ StreaksReturned
    /\ Len(commits) = 4
    /\ Days = {0, 1}
    /\ streak_info.current = 2 /\ streak_info.longest = 2

\* C30: for every non-empty commit set the longest streak computed by
\* calculate_metrics of analyze.py equals the longest streak computed by
\* calculate_streak_detailed of temporal.py on the same commits.
C30_SameLongestStreak ==
    (StreaksReturned /\ "calculate_metrics" \in called /\ commits # <<>>) =>
        productivity_metrics.longest_streak = streak_info.longest

\* C30 witness: an isolated day before a run of three days that lasts to the
\* latest date, found by both
C30_Witness ==
    /\ StreaksReturned
    /\ "calculate_metrics" \in called
    /\ Days = {0, 2, 3, 4}
    /\ productivity_metrics.longest_streak = 3
    /\ streak_info.longest = 3

(***************************************************************************)
(*                        Properties: empty input                          *)
(***************************************************************************)

=============================================================================
